---- MODULE Spec2Model ----
(***************************************************************************)
(* Model of the ATACtools peak selection pipeline:                         *)
(*   atactools/peaks/intervals.py   Interval / Bed6 / NarrowPeak           *)
(*   atactools/peaks/normalize.py   "map" and "none" score normalization   *)
(*   scripts/selectFWPeaks.py       main(): read, normalize, sort, select  *)
(*                                                                         *)
(* A Python str is modelled as the tuple of its code points, so that the   *)
(* comparisons the program performs on the fields it reads from a file     *)
(* (which it never converts from str) are the comparisons Python performs. *)
(* A float produced by round(x, 5) is modelled as the integer x * 10^5.    *)
(***************************************************************************)
EXTENDS Integers, Sequences, FiniteSets, TLC

----------------------------------------------------------------------------
(* Bounds of the model *)

\* largest number of records read over all input files of one run
MaxRecords == 3
\* largest number of input files on the command line
MaxFiles == 2

----------------------------------------------------------------------------
(* Python str values *)

RECURSIVE StrLT(_, _)
\* str.__lt__: lexicographic comparison by code point
StrLT(s, t) ==
    IF t = <<>> THEN FALSE
    ELSE IF s = <<>> THEN TRUE
    ELSE IF Head(s) < Head(t) THEN TRUE
    ELSE IF Head(s) > Head(t) THEN FALSE
    ELSE StrLT(Tail(s), Tail(t))

\* str.__gt__
StrGT(s, t) == StrLT(t, s)

\* one character of str.isdigit() / the class [0-9]
IsDigitChar(c) == c >= 48 /\ c <= 57

\* str.isdigit(): non-empty and all characters are digits
IsDigitStr(s) == s # <<>> /\ \A i \in 1..Len(s) : IsDigitChar(s[i])

\* str.lower() on ASCII
LowerStr(s) == [i \in 1..Len(s) |-> IF s[i] >= 65 /\ s[i] <= 90 THEN s[i] + 32 ELSE s[i]]

RECURSIVE IntOf(_)
\* int(substr) for a string of decimal digits
IntOf(s) ==
    IF s = <<>> THEN 0
    ELSE IntOf(SubSeq(s, 1, Len(s) - 1)) * 10 + (s[Len(s)] - 48)

\* the strings that occur in the inputs
chr1 == <<99, 104, 114, 49>>
chr2 == <<99, 104, 114, 50>>
chr10 == <<99, 104, 114, 49, 48>>
S(n) == IF n < 10 THEN <<48 + n>>
        ELSE IF n < 100 THEN <<48 + (n \div 10), 48 + (n % 10)>>
        ELSE <<48 + (n \div 100), 48 + ((n \div 10) % 10), 48 + (n % 10)>>

----------------------------------------------------------------------------
(* intervals.py *)

RECURSIVE re_split(_, _, _, _)
\* re.split('([0-9]+)', chrom): the substrings between digit runs and the
\* digit runs themselves, alternating, starting with a (possibly empty)
\* non-digit substring.  s: unread characters, cur: substring being built,
\* inDigits: cur is a digit run, acc: the substrings already split off
re_split(s, cur, inDigits, acc) ==
    IF s = <<>>
    THEN IF inDigits THEN Append(Append(acc, cur), <<>>) ELSE Append(acc, cur)
    ELSE IF IsDigitChar(Head(s)) = inDigits
         THEN re_split(Tail(s), Append(cur, Head(s)), inDigits, acc)
         ELSE re_split(Tail(s), <<Head(s)>>, ~inDigits, Append(acc, cur))

\* recode(substr): int(substr) if substr.isdigit() else substr.lower()
recode(substr) ==
    IF IsDigitStr(substr)
    THEN [isint |-> TRUE, int |-> IntOf(substr), str |-> <<>>]
    ELSE [isint |-> FALSE, int |-> 0, str |-> LowerStr(substr)]

\* prep_chrom_comp(chrom): the natural sort key of a contig name
prep_chrom_comp(chrom) ==
    LET parts == re_split(chrom, <<>>, FALSE, <<>>)
    IN  [i \in 1..Len(parts) |-> recode(parts[i])]

\* < on two elements of a natural sort key
KeyElemLT(x, y) == IF x.isint THEN x.int < y.int ELSE StrLT(x.str, y.str)

RECURSIVE KeyLT(_, _)
\* operator.lt on two lists: the first differing position decides, a proper
\* prefix is smaller
KeyLT(k1, k2) ==
    IF k2 = <<>> THEN FALSE
    ELSE IF k1 = <<>> THEN TRUE
    ELSE IF Head(k1) # Head(k2) THEN KeyElemLT(Head(k1), Head(k2))
    ELSE KeyLT(Tail(k1), Tail(k2))

\* operator.gt on two lists
KeyGT(k1, k2) == KeyLT(k2, k1)

\* Interval.__eq__
IntervalEq(self, other) ==
    /\ self.chrom = other.chrom
    /\ self.chromStart = other.chromStart
    /\ self.chromEnd = other.chromEnd

\* Interval.__lt__ ; the coordinates are compared as the str values they are
IntervalLT(self, other) ==
    LET keys == <<prep_chrom_comp(self.chrom), prep_chrom_comp(other.chrom)>>
    IN  IF KeyLT(keys[1], keys[2]) THEN TRUE
        ELSE IF KeyGT(keys[1], keys[2]) THEN FALSE
        ELSE \/ StrLT(self.chromEnd, other.chromStart)
             \/ /\ self.chromStart = other.chromStart
                /\ StrLT(self.chromEnd, other.chromEnd)

\* Interval.__gt__
IntervalGT(self, other) ==
    LET keys == <<prep_chrom_comp(self.chrom), prep_chrom_comp(other.chrom)>>
    IN  IF KeyLT(keys[1], keys[2]) THEN FALSE
        ELSE IF KeyGT(keys[1], keys[2]) THEN TRUE
        ELSE StrGT(self.chromStart, other.chromStart)

\* Interval.intersect
intersect(self, other) ==
    IF self.chrom # other.chrom THEN TRUE
    ELSE ~ ( \/ StrLT(other.chromEnd, self.chromStart)
             \/ StrGT(other.chromStart, self.chromEnd) )

\* Interval.__post_init__: the norm_score every record is constructed with
Sentinel == [t |-> "int", n |-> -1, s |-> <<>>]

\* peaks_type(*fields.strip().split()): every field stays the str it was read as
NewPeak(fields) ==
    [chrom |-> fields.chrom, chromStart |-> fields.chromStart,
     chromEnd |-> fields.chromEnd, name |-> fields.name,
     score |-> fields.score, strand |-> fields.strand,
     log_qval |-> fields.log_qval, norm_score |-> Sentinel]

----------------------------------------------------------------------------
(* list.sort as CPython performs it on a list shorter than 64 elements:    *)
(* the leading run is found (and reversed if strictly descending), the     *)
(* remaining elements are placed by binary insertion.  Only < is used.     *)

\* attrgetter(field_name)(obj)
attrgetter(field_name, obj) ==
    IF field_name = "score" THEN obj.score ELSE obj.log_qval

\* x < y as list.sort evaluates it: on the key strings under sort(key=...),
\* by Interval.__lt__ under sort()
SortLT(cmp, x, y) ==
    IF cmp = "__lt__" THEN IntervalLT(x, y)
    ELSE StrLT(attrgetter(cmp, x), attrgetter(cmp, y))

RECURSIVE RunEnd(_, _, _, _)
\* count_run: the length of the run that starts the list; i is the next
\* position to look at
RunEnd(cmp, s, desc, i) ==
    IF i > Len(s) THEN Len(s)
    ELSE IF SortLT(cmp, s[i], s[i - 1]) = desc THEN RunEnd(cmp, s, desc, i + 1)
    ELSE i - 1

RECURSIVE BinSearch(_, _, _, _, _)
\* the inner loop of binarysort: where pivot belongs in s[l .. r-1]
BinSearch(cmp, s, pivot, l, r) ==
    IF l >= r THEN l
    ELSE LET p == l + ((r - l) \div 2)
         IN  IF SortLT(cmp, pivot, s[p])
             THEN BinSearch(cmp, s, pivot, l, p)
             ELSE BinSearch(cmp, s, pivot, p + 1, r)

RECURSIVE BinarySort(_, _, _)
\* binarysort: s[1 .. start-1] is placed already, insert the rest one by one
BinarySort(cmp, s, start) ==
    IF start > Len(s) THEN s
    ELSE LET l == BinSearch(cmp, s, s[start], 1, start)
         IN  BinarySort(cmp,
                        SubSeq(s, 1, l - 1) \o <<s[start]>> \o
                        SubSeq(s, l, start - 1) \o SubSeq(s, start + 1, Len(s)),
                        start + 1)

\* reverse_slice
Reverse(s) == [i \in 1..Len(s) |-> s[Len(s) + 1 - i]]

\* list.sort
ListSort(cmp, s) ==
    IF Len(s) < 2 THEN s
    ELSE LET desc == SortLT(cmp, s[2], s[1])
             n    == RunEnd(cmp, s, desc, 3)
             s1   == IF desc THEN Reverse(SubSeq(s, 1, n)) \o SubSeq(s, n + 1, Len(s))
                     ELSE s
         IN  BinarySort(cmp, s1, n + 1)

----------------------------------------------------------------------------
(* normalize.py *)

\* STRATEGIES
STRATEGIES == {"map", "none"}

RECURSIVE Digits5(_, _, _, _)
\* the first i decimals of r / den (r < den) after q, and the remainder left
Digits5(q, r, den, i) ==
    IF i = 0 THEN <<q, r>>
    ELSE Digits5(q * 10 + ((r * 10) \div den), (r * 10) % den, den, i - 1)

\* round(x, rounderr) with rounderr = 5 of x = num / den, as an integer
\* number of 1e-5.  An exact tie, which Python decides by the binary value
\* of the float, goes to the even neighbour here; no file size of the model
\* produces one (the first is den = 192).
Round5(num, den) ==
    LET d == Digits5(num \div den, num % den, den, 5)
        q == d[1]
        r == d[2]
    IN  IF 2 * r > den THEN q + 1
        ELSE IF 2 * r < den THEN q
        ELSE IF q % 2 = 0 THEN q ELSE q + 1

\* the loop test of regular_pointmap(n) with last = k * dist, dist = end / (n + 1):
\* last + dist < end
PointmapContinues(k, n) == k + 1 < n + 1

\* the value the loop yields then: round(last + dist, rounderr)
PointmapYield(k, n) == [t |-> "float", n |-> Round5(k + 1, n + 1), s |-> <<>>]

RECURSIVE regular_pointmap_from(_, _)
\* the values regular_pointmap(n) yields from last = k * dist on
regular_pointmap_from(k, n) ==
    IF PointmapContinues(k, n)
    THEN <<PointmapYield(k, n)>> \o regular_pointmap_from(k + 1, n)
    ELSE <<>>

\* regular_pointmap(n)
regular_pointmap(n) == regular_pointmap_from(0, n)

\* extract_scores(objs, field_name): the field as it is stored, a str
extract_scores(objs, field_name) ==
    [i \in 1..Len(objs) |->
        [t |-> "str", n |-> 0, s |-> attrgetter(field_name, objs[i])]]

\* set_scores(objs, scores, "norm_score"): zip stops at the shorter list
set_scores(objs, scores) ==
    [i \in 1..Len(objs) |->
        IF i <= Len(scores) THEN [objs[i] EXCEPT !.norm_score = scores[i]]
        ELSE objs[i]]

\* normalize_peaks_map
normalize_peaks_map(objs, field_name) ==
    LET ranked == ListSort(field_name, objs)
    IN  ListSort("__lt__", set_scores(ranked, regular_pointmap(Len(objs))))

\* normalize_peaks_none
normalize_peaks_none(objs, field_name) ==
    ListSort("__lt__", set_scores(objs, extract_scores(objs, field_name)))

\* normalize_peaks: methods[method](objs, field_name), for a registered method
normalize_peaks(objs, field_name, method) ==
    IF method = "map" THEN normalize_peaks_map(objs, field_name)
    ELSE normalize_peaks_none(objs, field_name)

----------------------------------------------------------------------------
(* The inputs of a run *)

\* Path(infile).resolve().suffix of the files named on the command line
Suffixes == {".narrowPeak", ".bed", ".vcf"}

\* contig, chromStart and chromEnd of the lines of an input file: three
\* loci of one contig, each overlapping the next, and a locus of another
Loci == {<<chr2, S(10), S(50)>>, <<chr2, S(40), S(80)>>, <<chr2, S(60), S(90)>>}
OtherLocus == <<chr10, S(10), S(50)>>

\* the score (or log_qval) column of the lines of an input file
Scores == {S(9), S(10)}

\* a BED6 line split into its fields (a .bed line has no log_qval)
BedLine(l, sc) ==
    [chrom |-> l[1], chromStart |-> l[2], chromEnd |-> l[3], name |-> "pk",
     score |-> sc, strand |-> "+", log_qval |-> <<>>]

\* the lines of a BED6 file
BedLines ==
    {BedLine(l, sc) : l \in Loci, sc \in Scores} \cup {BedLine(OtherLocus, S(9))}

\* the lines of a narrowPeak file, split into fields; sigval, log_pval and
\* summit are read by no statement of the program and are left out
NarrowPeakLines ==
    {[chrom |-> chr2, chromStart |-> S(40), chromEnd |-> S(80), name |-> "pk",
      score |-> S(0), strand |-> "+", log_qval |-> S(10)]}

\* the file chr1 0 100 A 5 + / chr1 50 150 B 9 + / chr1 200 300 C 3 +
ScenarioLines ==
    << [chrom |-> chr1, chromStart |-> S(0), chromEnd |-> S(100), name |-> "A",
        score |-> S(5), strand |-> "+", log_qval |-> <<>>],
       [chrom |-> chr1, chromStart |-> S(50), chromEnd |-> S(150), name |-> "B",
        score |-> S(9), strand |-> "+", log_qval |-> <<>>],
       [chrom |-> chr1, chromStart |-> S(200), chromEnd |-> S(300), name |-> "C",
        score |-> S(3), strand |-> "+", log_qval |-> <<>>] >>

\* what a file with the given suffix may hold when no more than k records
\* are left to read
FileContents(suffix, k) ==
    LET lines == IF suffix = ".narrowPeak" THEN NarrowPeakLines ELSE BedLines
    IN  UNION {[1..n -> lines] : n \in 0..k}
        \cup (IF suffix = ".bed" /\ k >= Len(ScenarioLines) THEN {ScenarioLines} ELSE {})

----------------------------------------------------------------------------
(* selectFWPeaks.py: main() *)

VARIABLES
    input_peaks,       \* the files of args.input_peaks the for loop has yet to
                       \* take, each by its suffix
    unresolvable,      \* args.input_peaks held a file the program cannot resolve
    norm_strategy,     \* args.norm_strategy ("None" when -n is not given)
    write_out_all,     \* args.write_out_all is given
    pc,                \* the statement main() is at
    normalized_peaks,
    selector_input,    \* normalized_peaks as it was when the selection began
    norm_peaks_n,
    focus_peak,
    overlap_frame,
    final_peaks,
    all_file,          \* the file args.write_out_all
    output_file,       \* the file args.output_bed
    error,             \* the exception that ended the run
    map_n,             \* normalize_peaks_map alone: len(objs)
    map_i,             \* ... the records set_scores has given a score so far
    map_prev,          \* ... the norm_score given to the record of rank map_i - 1
    map_cur            \* ... the norm_score given to the record of rank map_i

vars == <<input_peaks, unresolvable, norm_strategy, write_out_all, pc,
          normalized_peaks, selector_input, norm_peaks_n, focus_peak,
          overlap_frame, final_peaks, all_file, output_file, error,
          map_n, map_i, map_prev, map_cur>>

map_vars == <<map_n, map_i, map_prev, map_cur>>

main_vars == <<input_peaks, unresolvable, norm_strategy, write_out_all, pc,
               normalized_peaks, selector_input, norm_peaks_n, focus_peak,
               overlap_frame, final_peaks, all_file, output_file, error>>

NotWritten == [written |-> FALSE, lines |-> <<>>]

Init ==
    /\ input_peaks \in UNION {[1..n -> Suffixes] : n \in 1..MaxFiles}
    /\ unresolvable = (\E i \in 1..Len(input_peaks) :
                          input_peaks[i] \notin {".bed", ".narrowPeak"})
    /\ norm_strategy \in STRATEGIES \cup {"None"}
    /\ write_out_all \in BOOLEAN
    /\ pc = "read"
    /\ normalized_peaks = <<>>
    /\ selector_input = <<>>
    /\ norm_peaks_n = 0
    /\ focus_peak = <<>>
    /\ overlap_frame = <<>>
    /\ final_peaks = <<>>
    /\ all_file = NotWritten
    /\ output_file = NotWritten
    /\ error = "none"
    /\ map_n = 0 /\ map_i = 0 /\ map_prev = 0 /\ map_cur = 0

\* the test on infile_path.suffix with the else branch lost: any other file
\* is read as BED6
ResolvesType_anything(suffix) == suffix \in Suffixes

\* the test on infile_path.suffix
ResolvesType(suffix) == suffix = ".narrowPeak" \/ suffix = ".bed"

\* field_name chosen with peaks_type
FieldName(suffix) == IF suffix = ".narrowPeak" THEN "log_qval" ELSE "score"

\* the output line written for a peak
OutLine(peak) ==
    <<peak.chrom, peak.chromStart, peak.chromEnd, peak.name, peak.norm_score,
      peak.strand>>

\* a > b on two norm_score values
ScoreGT(a, b) == IF a.t = "str" THEN StrGT(a.s, b.s) ELSE a.n > b.n

RECURSIVE MaxFrom(_, _, _)
\* max(scores): the first item that no later item is greater than
MaxFrom(scores, i, best) ==
    IF i > Len(scores) THEN best
    ELSE MaxFrom(scores, i + 1, IF ScoreGT(scores[i], best) THEN scores[i] ELSE best)

\* scores.index(max(scores))
MaxIdx(frame) ==
    LET scores == [i \in 1..Len(frame) |-> frame[i].norm_score]
        m == MaxFrom(scores, 2, scores[1])
    IN  CHOOSE i \in 1..Len(scores) :
            scores[i] = m /\ \A j \in 1..(i - 1) : scores[j] # m

\* one pass of the for loop over args.input_peaks whose file cannot be resolved
RaiseUnresolved ==
    /\ pc = "read"
    /\ input_peaks # <<>>
    /\ ~ResolvesType(Head(input_peaks))
    /\ pc' = "error"
    /\ error' = "ValueError"
    /\ UNCHANGED map_vars
    /\ UNCHANGED <<input_peaks, unresolvable, norm_strategy, write_out_all,
                   normalized_peaks, selector_input, norm_peaks_n, focus_peak,
                   overlap_frame, final_peaks, all_file, output_file>>

\* one pass of the for loop: read the file, normalize, extend
ReadFile ==
    /\ pc = "read"
    /\ input_peaks # <<>>
    /\ ResolvesType(Head(input_peaks))
    /\ \E lines \in FileContents(Head(input_peaks),
                                 MaxRecords - Len(normalized_peaks)) :
        LET raw_peaks == [i \in 1..Len(lines) |-> NewPeak(lines[i])]
        IN  IF norm_strategy \in STRATEGIES
            THEN /\ normalized_peaks' = normalized_peaks \o
                        normalize_peaks(raw_peaks, FieldName(Head(input_peaks)),
                                        norm_strategy)
                 /\ input_peaks' = Tail(input_peaks)
                 /\ UNCHANGED <<pc, error>>
            ELSE /\ pc' = "error"
                 /\ error' = "KeyError"
                 /\ UNCHANGED <<normalized_peaks, input_peaks>>
    /\ UNCHANGED map_vars
    /\ UNCHANGED <<unresolvable, norm_strategy, write_out_all, selector_input,
                   norm_peaks_n, focus_peak, overlap_frame, final_peaks,
                   all_file, output_file>>

\* normalized_peaks.sort()
SortConcatenated ==
    /\ pc = "read"
    /\ input_peaks = <<>>
    /\ normalized_peaks' = ListSort("__lt__", normalized_peaks)
    /\ pc' = "write_all"
    /\ UNCHANGED map_vars
    /\ UNCHANGED <<input_peaks, unresolvable, norm_strategy, write_out_all,
                   selector_input, norm_peaks_n, focus_peak, overlap_frame,
                   final_peaks, all_file, output_file, error>>

\* if args.write_out_all: write every record with its normalized score
WriteOutAll ==
    /\ pc = "write_all"
    /\ all_file' = IF write_out_all
                   THEN [written |-> TRUE,
                         lines |-> [i \in 1..Len(normalized_peaks) |->
                                        OutLine(normalized_peaks[i])]]
                   ELSE all_file
    /\ pc' = "select"
    /\ UNCHANGED map_vars
    /\ UNCHANGED <<input_peaks, unresolvable, norm_strategy, write_out_all,
                   normalized_peaks, selector_input, norm_peaks_n, focus_peak,
                   overlap_frame, final_peaks, output_file, error>>

\* norm_peaks_n = len(..); focus_peak = normalized_peaks.pop(0); ...
SelectStart ==
    /\ pc = "select"
    /\ norm_peaks_n' = Len(normalized_peaks)
    /\ selector_input' = normalized_peaks
    /\ IF normalized_peaks = <<>>
       THEN /\ pc' = "error"
            /\ error' = "IndexError"
            /\ UNCHANGED <<normalized_peaks, focus_peak, overlap_frame, final_peaks>>
       ELSE /\ focus_peak' = Head(normalized_peaks)
            /\ normalized_peaks' = Tail(normalized_peaks)
            /\ overlap_frame' = <<Head(normalized_peaks)>>
            /\ final_peaks' = <<>>
            /\ pc' = "roll"
            /\ UNCHANGED error
    /\ UNCHANGED map_vars
    /\ UNCHANGED <<input_peaks, unresolvable, norm_strategy, write_out_all,
                   all_file, output_file>>

\* the while loop, if branch: the next peak joins the overlap frame
Absorb ==
    /\ pc = "roll"
    /\ Len(normalized_peaks) > 0
    /\ intersect(focus_peak, normalized_peaks[1])
    /\ overlap_frame' = Append(overlap_frame, Head(normalized_peaks))
    /\ normalized_peaks' = Tail(normalized_peaks)
    /\ UNCHANGED map_vars
    /\ UNCHANGED <<input_peaks, unresolvable, norm_strategy, write_out_all, pc,
                   selector_input, norm_peaks_n, focus_peak, final_peaks,
                   all_file, output_file, error>>

\* the while loop, else branch: the frame is closed, the next peak is the focus
CloseFrame ==
    /\ pc = "roll"
    /\ Len(normalized_peaks) > 0
    /\ ~intersect(focus_peak, normalized_peaks[1])
    /\ final_peaks' = Append(final_peaks, overlap_frame[MaxIdx(overlap_frame)])
    /\ focus_peak' = Head(normalized_peaks)
    /\ normalized_peaks' = Tail(normalized_peaks)
    /\ overlap_frame' = <<Head(normalized_peaks)>>
    /\ UNCHANGED map_vars
    /\ UNCHANGED <<input_peaks, unresolvable, norm_strategy, write_out_all, pc,
                   selector_input, norm_peaks_n, all_file, output_file, error>>

\* after the loop: select final peaks
SelectFinal ==
    /\ pc = "roll"
    /\ Len(normalized_peaks) = 0
    /\ final_peaks' = Append(final_peaks, overlap_frame[MaxIdx(overlap_frame)])
    /\ pc' = "write"
    /\ UNCHANGED map_vars
    /\ UNCHANGED <<input_peaks, unresolvable, norm_strategy, write_out_all,
                   normalized_peaks, selector_input, norm_peaks_n, focus_peak,
                   overlap_frame, all_file, output_file, error>>

\* write final bed outputs
WriteOutput ==
    /\ pc = "write"
    /\ output_file' = [written |-> TRUE,
                       lines |-> [i \in 1..Len(final_peaks) |-> OutLine(final_peaks[i])]]
    /\ pc' = "done"
    /\ UNCHANGED map_vars
    /\ UNCHANGED <<input_peaks, unresolvable, norm_strategy, write_out_all,
                   normalized_peaks, selector_input, norm_peaks_n, focus_peak,
                   overlap_frame, final_peaks, all_file, error>>

Next ==
    \/ RaiseUnresolved
    \/ ReadFile
    \/ SortConcatenated
    \/ WriteOutAll
    \/ SelectStart
    \/ Absorb
    \/ CloseFrame
    \/ SelectFinal
    \/ WriteOutput

Spec == Init /\ [][Next]_vars

----------------------------------------------------------------------------
(* normalize_peaks_map followed record by record on one file, so that a    *)
(* file of the size peak callers produce can be followed: the records are  *)
(* taken in the order objs.sort(key=...) leaves them in, set_scores zips   *)
(* them with the values regular_pointmap yields one after the other.       *)

\* number of records of a large input file
LargeFile == 200001

\* len(objs)
MapSizes == (1..MaxRecords) \cup {LargeFile}

MapInit ==
    /\ input_peaks = <<".bed">>
    /\ unresolvable = FALSE
    /\ norm_strategy = "map"
    /\ write_out_all = FALSE
    /\ pc = "set_scores"
    /\ normalized_peaks = <<>>
    /\ selector_input = <<>>
    /\ norm_peaks_n = 0
    /\ focus_peak = <<>>
    /\ overlap_frame = <<>>
    /\ final_peaks = <<>>
    /\ all_file = NotWritten
    /\ output_file = NotWritten
    /\ error = "none"
    /\ map_n \in MapSizes
    /\ map_i = 0
    /\ map_prev = 0
    /\ map_cur = 0

\* set_scores: zip pairs the next record in rank order with the next value
\* of regular_pointmap
MapSetScore ==
    /\ pc = "set_scores"
    /\ map_i < map_n
    /\ PointmapContinues(map_i, map_n)
    /\ map_prev' = map_cur
    /\ map_cur' = PointmapYield(map_i, map_n).n
    /\ map_i' = map_i + 1
    /\ UNCHANGED <<map_n>>
    /\ UNCHANGED main_vars

\* zip ends when either objs or the generator is exhausted
MapSetScoresEnd ==
    /\ pc = "set_scores"
    /\ (map_i >= map_n \/ ~PointmapContinues(map_i, map_n))
    /\ pc' = "scores_set"
    /\ UNCHANGED map_vars
    /\ UNCHANGED <<input_peaks, unresolvable, norm_strategy, write_out_all,
                   normalized_peaks, selector_input, norm_peaks_n, focus_peak,
                   overlap_frame, final_peaks, all_file, output_file, error>>

MapNext == MapSetScore \/ MapSetScoresEnd

SpecMap == MapInit /\ [][MapNext]_vars

----------------------------------------------------------------------------
(* Properties.  The columns of a record are numbers to the reader of the   *)
(* output, whatever type the program holds them in: the properties speak   *)
(* of their numeric values.                                                *)

\* the records of a list
Elems(seq) == {seq[i] : i \in 1..Len(seq)}

\* numeric value of a coordinate column
Num(s) == IntOf(s)

\* numeric value of a norm_score
NumScore(v) == IF v.t = "str" THEN IntOf(v.s) ELSE v.n

\* a and b overlap: same chromosome and
\* NOT (b.chromEnd < a.chromStart OR b.chromStart > a.chromEnd)
Overlap(a, b) ==
    /\ a.chrom = b.chrom
    /\ ~ ( \/ Num(b.chromEnd) < Num(a.chromStart)
           \/ Num(b.chromStart) > Num(a.chromEnd) )

\* a is ordered before b: by natural chromosome key first, then by position
OrderedBefore(a, b) ==
    \/ KeyLT(prep_chrom_comp(a.chrom), prep_chrom_comp(b.chrom))
    \/ /\ prep_chrom_comp(a.chrom) = prep_chrom_comp(b.chrom)
       /\ \/ Num(a.chromEnd) < Num(b.chromStart)
          \/ /\ Num(a.chromStart) = Num(b.chromStart)
             /\ Num(a.chromEnd) < Num(b.chromEnd)

RECURSIVE IsSubsequence(_, _)
\* a is b with some elements left out
IsSubsequence(a, b) ==
    IF a = <<>> THEN TRUE
    ELSE IF b = <<>> THEN FALSE
    ELSE IF Head(a) = Head(b) THEN IsSubsequence(Tail(a), Tail(b))
    ELSE IsSubsequence(a, Tail(b))

\* C1: any two distinct records the Selector has emitted lie on different
\* chromosomes or do not overlap.
C1_SelectorNonOverlap ==
    \A i, j \in 1..Len(final_peaks) :
        i # j => ( \/ final_peaks[i].chrom # final_peaks[j].chrom
                   \/ ~Overlap(final_peaks[i], final_peaks[j]) )

\* C2: for all intervals a and b of the collection with a.chrom # b.chrom,
\* a.intersect(b) is false.
C2_CrossChromosomeDisjoint ==
    \A a, b \in Elems(selector_input) :
        a.chrom # b.chrom => ~intersect(a, b)

\* C3: when every file has been read and the merged collection is empty,
\* the selection raises nothing (and the Selector output stays empty).
C3_EmptyInputNoError ==
    (input_peaks = <<>> /\ normalized_peaks = <<>> /\ norm_peaks_n = 0)
        => (error = "none" /\ final_peaks = <<>>)

\* C4: whenever a cluster is closed, the record emitted is the first member,
\* in scan order, whose norm_score is the maximum of the cluster: no member
\* has a greater norm_score, and every member before it has a smaller one.
C4_SelectorMaximality ==
    [][ (pc = "roll" /\ Len(final_peaks') = Len(final_peaks) + 1) =>
            \E i \in 1..Len(overlap_frame) :
                /\ final_peaks'[Len(final_peaks')] = overlap_frame[i]
                /\ \A j \in 1..Len(overlap_frame) :
                       NumScore(overlap_frame[j].norm_score)
                           <= NumScore(overlap_frame[i].norm_score)
                /\ \A j \in 1..(i - 1) :
                       NumScore(overlap_frame[j].norm_score)
                           < NumScore(overlap_frame[i].norm_score) ]_vars

\* C5: under "map", on a file of n records with pairwise different raw
\* scores, every record gets a norm_score strictly between 0 and 1, the
\* record of rank i - 1 gets a smaller norm_score than the record of rank i,
\* and when set_scores is through all n records have been given one.
C5_MapRankPreserving ==
    /\ map_i >= 1 => (0 < map_cur /\ map_cur < 100000)
    /\ map_i >= 2 => map_prev < map_cur
    /\ pc = "scores_set" => map_i = map_n

\* the records of a list are pairwise non-overlapping
PairwiseNonOverlapping(seq) ==
    \A i, j \in 1..Len(seq) : i # j => ~Overlap(seq[i], seq[j])

\* C6: run on a collection that is pairwise non-overlapping, the Selector
\* returns exactly the records of that collection.
C6_SelectorIdempotent ==
    (pc = "done" /\ PairwiseNonOverlapping(selector_input))
        => Elems(final_peaks) = Elems(selector_input)

\* C7: when some input file, wherever it sits in the list, is neither .bed
\* nor .narrowPeak, the run never gets past reading (it ends in an error)
\* and neither the output file nor the --write-out-all file is written.
C7_UnresolvableAbortsBeforeOutput ==
    unresolvable =>
        /\ pc \in {"read", "error"}
        /\ ~output_file.written
        /\ ~all_file.written

\* C7 happens: the unresolvable file is the last of the list, the file
\* before it was read and normalized, --write-out-all was asked for, and
\* the run has ended in the ValueError with nothing written.
C7_Witness ==
    /\ unresolvable
    /\ input_peaks = <<".vcf">>
    /\ Len(normalized_peaks) > 0
    /\ write_out_all
    /\ pc = "error"
    /\ error = "ValueError"
    /\ ~output_file.written
    /\ ~all_file.written

\* C8: for every pair of intervals a, b of the collection exactly one of
\* a < b, a == b, a > b holds, and a < b iff b > a.
C8_TotalOrder ==
    \A a, b \in Elems(selector_input) :
        /\ \/ ( IntervalLT(a, b) /\ ~IntervalEq(a, b) /\ ~IntervalGT(a, b))
           \/ (~IntervalLT(a, b) /\  IntervalEq(a, b) /\ ~IntervalGT(a, b))
           \/ (~IntervalLT(a, b) /\ ~IntervalEq(a, b) /\  IntervalGT(a, b))
        /\ IntervalLT(a, b) <=> IntervalGT(b, a)

\* C9: with "none", the input chr1 0 100 A 5 +, chr1 50 150 B 9 +,
\* chr1 200 300 C 3 + gives exactly B (norm_score 9) followed by C
\* (norm_score 3).
C9_ScenarioOutput ==
    ( /\ pc = "done"
      /\ norm_strategy = "none"
      /\ Len(selector_input) = 3
      /\ {selector_input[i].name : i \in 1..3} = {"A", "B", "C"} )
        => /\ Len(final_peaks) = 2
           /\ final_peaks[1].name = "B"
           /\ NumScore(final_peaks[1].norm_score) = 9
           /\ final_peaks[2].name = "C"
           /\ NumScore(final_peaks[2].norm_score) = 3

\* C10: the output is a subsequence of the sorted input of the Selector and
\* is in genomic order: no output record is ordered before an earlier one.
C10_OutputInGenomicOrder ==
    pc \in {"write", "done"} =>
        /\ IsSubsequence(final_peaks, selector_input)
        /\ \A i, j \in 1..Len(final_peaks) :
               i < j => ~OrderedBefore(final_peaks[j], final_peaks[i])

====
